---- MODULE Spec2Model ----
(***************************************************************************)
(* A model of the svc command line tool (Wrld-DDev/voidArchs): the file    *)
(* tracker, the ignore matcher and the snapshot engine over the sqlite     *)
(* store.  Every database statement of a handler is one step: the handlers *)
(* are callback chains over autocommit statements, the CLI's `await` of a  *)
(* handler returns before its chain has run, so chains of different        *)
(* commands interleave statement by statement.                             *)
(***************************************************************************)
EXTENDS Integers, Sequences, FiniteSets, Bags, TLC

(***************************************************************************)
(* Bounds of the model.                                                    *)
(***************************************************************************)
\* snapshots created in one behaviour (the AUTOINCREMENT counter is capped)
MaxSnapshots == 2
\* edits of the working tree by the user in one behaviour
MaxEdits == 1
\* callback chains in flight at the same time
MaxInFlight == 2

(***************************************************************************)
(* Paths and patterns are strings, read character by character.            *)
(***************************************************************************)
\* the files the working tree may hold
Paths == {"a.txt", "debug.log", "catalog", "node_modules/m.js"}

\* the directories above them; the root is the empty path
Dirs == {"", "node_modules"}

\* file contents; Missing is a path with no file
Contents == {"1", "2"}
Missing == "<missing>"

\* the rules initProject writes to .svcignore
DefaultIgnoreRules == <<"node_modules/", ".git/", "*.log", "*.tmp", "*.db">>

\* the rules a .svcignore of the model may hold
Rules == {DefaultIgnoreRules[i] : i \in 1..Len(DefaultIgnoreRules)}

endsWith(str, suffix) ==
    /\ Len(suffix) <= Len(str)
    /\ SubSeq(str, Len(str) - Len(suffix) + 1, Len(str)) = suffix

startsWith(str, prefix) ==
    /\ Len(prefix) <= Len(str)
    /\ SubSeq(str, 1, Len(prefix)) = prefix

(***************************************************************************)
(* .svcignore is a text file: the rules are what loadIgnoreRules reads     *)
(* from it.                                                                *)
(***************************************************************************)
\* the pieces of text from position start on, cut at every "\n" at or after
\* position i
RECURSIVE splitFrom(_, _, _)
splitFrom(text, i, start) ==
    IF i > Len(text) THEN <<SubSeq(text, start, Len(text))>>
    ELSE IF SubSeq(text, i, i) = "\n"
         THEN <<SubSeq(text, start, i - 1)>> \o splitFrom(text, i + 1, i + 1)
         ELSE splitFrom(text, i + 1, start)

\* text.split('\n')
split(text) == splitFrom(text, 1, 1)

\* the white space of the model's files
WhiteSpace == {" ", "\t", "\r"}

RECURSIVE trimStart(_)
trimStart(str) ==
    IF Len(str) > 0 /\ SubSeq(str, 1, 1) \in WhiteSpace
    THEN trimStart(SubSeq(str, 2, Len(str)))
    ELSE str

RECURSIVE trimEnd(_)
trimEnd(str) ==
    IF Len(str) > 0 /\ SubSeq(str, Len(str), Len(str)) \in WhiteSpace
    THEN trimEnd(SubSeq(str, 1, Len(str) - 1))
    ELSE str

\* line.trim()
trim(str) == trimEnd(trimStart(str))

\* (line) => line && !line.startsWith('#') && !line.startsWith('//')
isRule(line) == line # "" /\ ~startsWith(line, "#") /\ ~startsWith(line, "//")

\* a loader that keeps the comments
loadWithComments(file) ==
    IF file = Missing THEN <<>>
    ELSE LET lines == split(file)
         IN  SelectSeq([i \in 1..Len(lines) |-> trim(lines[i])], LAMBDA line : line # "")

\* loadIgnoreRules: [] without the file, else the trimmed lines that are
\* neither empty nor comments
loadIgnoreRules(file) ==
    IF file = Missing THEN <<>>
    ELSE LET lines == split(file)
         IN  SelectSeq([i \in 1..Len(lines) |-> trim(lines[i])], isRule)

\* rules.join('\n')
RECURSIVE join(_)
join(rules) ==
    IF rules = <<>> THEN ""
    ELSE IF Len(rules) = 1 THEN rules[1]
    ELSE rules[1] \o "\n" \o join(Tail(rules))

\* initProject: fs.writeFileSync(ignoreFilePath, [...].join('\n'))
InitialIgnoreFile == join(DefaultIgnoreRules)

\* what loadIgnoreRules returns for the file initProject wrote
InitialIgnoreRules == loadIgnoreRules(InitialIgnoreFile)

\* const ignorePatterns = loadIgnoreRules() of a command: the rules of the
\* file as it is now
ignorePatterns(file) ==
    IF file = InitialIgnoreFile THEN InitialIgnoreRules ELSE loadIgnoreRules(file)

(***************************************************************************)
(* calculateFileHash: SHA-256 of the bytes, an injective image of the      *)
(* content.                                                                *)
(***************************************************************************)
calculateFileHash(content) == <<"sha256", content>>

(***************************************************************************)
(* The tracker's matcher: new RegExp(`^${pattern.replace(/\*/g,'.*')}$`).  *)
(***************************************************************************)
RECURSIVE replaceStar(_)
replaceStar(pattern) ==
    IF Len(pattern) = 0 THEN ""
    ELSE IF Head(pattern) = "*"
         THEN ".*" \o replaceStar(Tail(pattern))
         ELSE Head(pattern) \o replaceStar(Tail(pattern))

\* one regular-expression atom against one character: `.` is any character
AtomMatches(atom, ch) == atom = "." \/ atom = ch

\* an anchored match of the regular expression source re against s: an
\* atom followed by `*` repeats, every other character stands for itself
RECURSIVE RegExpTest(_, _)
RegExpTest(re, s) ==
    IF Len(re) = 0 THEN Len(s) = 0
    ELSE IF Len(re) >= 2 /\ SubSeq(re, 2, 2) = "*"
         THEN \/ RegExpTest(Tail(Tail(re)), s)
              \/ /\ Len(s) > 0
                 /\ AtomMatches(Head(re), Head(s))
                 /\ RegExpTest(re, Tail(s))
         ELSE /\ Len(s) > 0
              /\ AtomMatches(Head(re), Head(s))
              /\ RegExpTest(Tail(re), Tail(s))

\* new RegExp(`^${pattern.replace(/\*/g, '.*')}$`).test(entryPath), for
\* every rule and every entry of the tree
patternTest ==
    [pattern \in Rules, entryPath \in Paths \cup Dirs |->
        RegExpTest(replaceStar(pattern), entryPath)]

\* a matcher that ignores nothing
NeverIgnored(patterns, entryPath) == FALSE

\* ignorePatterns.some((pattern) => new RegExp(...).test(entryPath))
matchesIgnore(patterns, entryPath) ==
    \E i \in 1..Len(patterns) : patternTest[patterns[i], entryPath]

(***************************************************************************)
(* The directory walk.  A directory is a proper prefix of a file's path    *)
(* that ends before a "/".                                                 *)
(***************************************************************************)
Exists(d, p) == d[p] # Missing

Under(dir, p) ==
    \/ dir = ""
    \/ /\ Len(p) > Len(dir) + 1
       /\ SubSeq(p, 1, Len(dir)) = dir
       /\ SubSeq(p, Len(dir) + 1, Len(dir) + 1) = "/"

\* path.relative(projectDir, path.join(dir, entry.name)) of the entry of dir
\* that holds (or is) the file p; "" when p is not below dir
entryPathOf ==
    [dir \in Dirs, p \in Paths |->
        IF ~Under(dir, p) THEN ""
        ELSE LET from == IF dir = "" THEN 1 ELSE Len(dir) + 2
                 slashes == {i \in from..Len(p) : SubSeq(p, i, i) = "/"}
             IN  IF slashes = {} THEN p
                 ELSE SubSeq(p, 1, (CHOOSE i \in slashes : \A j \in slashes : i <= j) - 1)]

\* fs.readdirSync(dir): the entries of dir, as relative paths
readdirSync(d, dir) ==
    {entryPathOf[dir, p] : p \in {q \in Paths : Exists(d, q) /\ entryPathOf[dir, q] # ""}}

isFile(d, entryPath) == entryPath \in Paths /\ Exists(d, entryPath)

\* the files traverseDirectory(dir) reaches: an ignored entry is skipped, a
\* file is tracked, a directory is walked
RECURSIVE traverseDirectory(_, _, _)
traverseDirectory(d, patterns, dir) ==
    UNION { IF matchesIgnore(patterns, e) THEN {}
            ELSE IF isFile(d, e) THEN {e}
            ELSE traverseDirectory(d, patterns, e)
          : e \in readdirSync(d, dir) }

(***************************************************************************)
(* The state.                                                              *)
(***************************************************************************)
VARIABLES
    disk,            \* the working tree: path -> content, or Missing
    edits,           \* edits of the working tree made so far
    svcignore,       \* the text of .svcignore, or Missing
    files,           \* table files: rows [id, project_id, path, hash]
    nextFileId,      \* AUTOINCREMENT counter of files
    snapshots,       \* table snapshots: rows [id, project_id, description, created_at]
    nextSnapshotId,  \* AUTOINCREMENT counter of snapshots
    snapshot_files,  \* table snapshot_files: a bag of rows
                     \*   [snapshot_id, file_id, content]
    track,           \* trackFiles chains in flight
    create,          \* createSnapshot chains in flight
    del,             \* deleteSnapshot chains in flight
    invocations,     \* createSnapshot calls so far
    captured,        \* history: snapshot id -> the rows its chain enumerated
    finished,        \* history: snapshot ids whose chain ran to its end
    inserted,        \* history: the bag of snapshot_files rows ever inserted
    aborted,         \* history: snapshot ids whose chain failed after the
                     \*   Snapshot row was inserted
    deleted,         \* history: snapshot ids a delete reported as deleted
    restore,         \* revertToSnapshot / selectiveRestore chains in flight
    restores,        \* revert and restore calls so far
    diff,            \* diffSnapshots calls in flight
    diffs,           \* diffSnapshots calls so far
    console,         \* what the restore and diff commands printed
    database,        \* the database file: "missing", "noproject" (no row in
                     \*   projects) or "ready"
    monitoredChanges,\* monitor: the arrays added, modified and deleted
    watching,        \* monitor: the session whose watcher is open, or 0
    sessions,        \* monitor: monitorFiles calls so far
    listeners,       \* the SIGINT listeners of the process, as registered
    timers,          \* monitor: session -> the path its debounced change
                     \*   callback will be called with, or Idle
    handlers,        \* monitor: SIGINT handlers waiting for a prompt answer,
                     \*   each with the prompts it has shown
    firstEvents,     \* history: per kind, the paths in the order of their
                     \*   first watcher event since the arrays were cleared
    interrupted,     \* history: sessions a SIGINT arrived in
    summaries,       \* history: sessions whose summary was printed
    signals,         \* SIGINT signals so far
    editor,          \* editIgnoreRules: whether it is open, and its list
    secret_key,      \* projects.secret_key of the project, "" for NULL
    collab,          \* getSecretKey / regenerateSecretKey calls in flight
    shown,           \* the key the last call resolved with, "" for none
    clock            \* CURRENT_TIMESTAMP, in seconds

store == <<files, nextFileId, snapshots, nextSnapshotId, snapshot_files>>
chains == <<track, create, del, invocations>>
history == <<captured, inserted, finished, aborted, deleted>>
readers == <<restore, diff>>
ui == <<restores, diffs, console>>
monitor == <<monitoredChanges, watching, sessions, listeners, timers, handlers>>
observed == <<firstEvents, interrupted, summaries, signals>>
menus == <<editor, secret_key, collab, shown, clock>>
session == <<database, monitor, observed, menus>>
vars == <<disk, edits, svcignore, store, chains, history, readers, ui, session>>

\* the one row of table projects (initProject)
ProjectId == 1

\* the tree the model starts from: a fresh project, nothing installed yet
InitialDisk == [p \in Paths |-> IF p = "node_modules/m.js" THEN Missing ELSE "1"]

\* the listener index.js registers for SIGINT; the listener of a monitoring
\* session is the number of the session
ExitListener == 0

\* monitored paths, relative to the project directory (the watcher ignores
\* node_modules and .git)
MonitorPaths == {"a.txt", "b.txt"}

\* monitorFiles calls
MaxSessions == 2

\* a debounced callback with no call pending
Idle == ""

\* const monitoredChanges = { added: [], modified: [], deleted: [] }
EmptyChanges == [added |-> <<>>, modified |-> <<>>, deleted |-> <<>>]

\* the state after start-up, with the database file as found and the SIGINT
\* listeners registered before the first command
InitFiles(db, registered, ignoreFile) ==
    /\ database = db
    /\ svcignore = ignoreFile
    /\ editor = [open |-> FALSE, rules |-> <<>>]
    /\ secret_key = ""
    /\ collab = {}
    /\ shown = ""
    /\ clock = 0
    /\ monitoredChanges = EmptyChanges
    /\ watching = 0
    /\ sessions = 0
    /\ listeners = registered
    /\ timers = [s \in 1..MaxSessions |-> Idle]
    /\ handlers = {}
    /\ firstEvents = EmptyChanges
    /\ interrupted = {}
    /\ summaries = {}
    /\ signals = 0
    /\ disk = InitialDisk
    /\ edits = 0
    /\ files = {}
    /\ nextFileId = 1
    /\ snapshots = {}
    /\ nextSnapshotId = 1
    /\ snapshot_files = EmptyBag
    /\ track = {}
    /\ create = {}
    /\ del = {}
    /\ invocations = 0
    /\ captured = <<>>
    /\ inserted = EmptyBag
    /\ finished = {}
    /\ aborted = {}
    /\ deleted = {}
    /\ restore = {}
    /\ restores = 0
    /\ diff = {}
    /\ diffs = 0
    /\ console = {}

\* the project as initProject leaves it
InitWith(db, registered) == InitFiles(db, registered, InitialIgnoreFile)

\* the CLI in an initialized project: index.js registers its SIGINT listener
\* before the menu starts
Init == InitWith("ready", <<ExitListener>>)

\* a lookup that finds a project whatever the database holds
alwaysFound(db) == TRUE

\* fs.existsSync(dbPath) holds and SELECT id FROM projects WHERE name = ?
\* returns a row: the first thing every command does
projectFound(db) == db = "ready"

\* the commands that start with the lookup
Commands ==
    {"trackFiles", "createSnapshot", "deleteSnapshot", "diffSnapshots",
     "revertToSnapshot", "selectiveRestore", "showHistory"}

\* a command in a directory with no database file, or whose lookup returns
\* no project: it prints its failure and returns (createSnapshot also
\* calls trackFiles, which fails the same way)
notInitialized(command) ==
    /\ ~projectFound(database)
    /\ console' = {<<"Failed", command>>}
    /\ UNCHANGED <<disk, edits, svcignore, store, chains, history, readers, restores,
                   diffs, session>>

(***************************************************************************)
(* The user edits the working tree.                                        *)
(***************************************************************************)
writeFile(p, c) ==
    /\ edits < MaxEdits
    /\ disk[p] # c
    /\ disk' = [disk EXCEPT ![p] = c]
    /\ edits' = edits + 1
    /\ UNCHANGED <<readers, ui, svcignore, session, store, chains, history>>

unlink(p) ==
    /\ edits < MaxEdits
    /\ disk[p] # Missing
    /\ disk' = [disk EXCEPT ![p] = Missing]
    /\ edits' = edits + 1
    /\ UNCHANGED <<readers, ui, svcignore, session, store, chains, history>>

(***************************************************************************)
(* trackFiles.                                                             *)
(***************************************************************************)
\* the chain trackFiles leaves behind: the project lookup is queued
\* (loadIgnoreRules has run: the rules are those of the call)
TrackChain(owner, patterns) ==
    [owner |-> owner, pc |-> "project", patterns |-> patterns, seen |-> <<>>, work |-> {}]

\* the statements the walk queues: one SELECT per file it reached, with the
\* hash computed during the walk
walkWork(d, patterns) ==
    {[path |-> p, hash |-> calculateFileHash(d[p]), op |-> "select"]
        : p \in traverseDirectory(d, patterns, "")}

\* `track` with chain t replaced by its successor; a chain with no
\* statement left is closed
Continue(set, t, next) ==
    IF next.work = {} THEN set \ {t} ELSE (set \ {t}) \cup {next}

\* the chains in flight
InFlight ==
    Cardinality(track) + Cardinality(create) + Cardinality(del)
        + Cardinality(restore) + Cardinality(diff)

\* svc track from the menu
trackFiles ==
    /\ projectFound(database)
    /\ InFlight < MaxInFlight
    /\ ~\E t \in track : t.owner = 0
    /\ track' = track \cup {TrackChain(0, ignorePatterns(svcignore))}
    /\ UNCHANGED <<readers, ui, disk, edits, svcignore, session, store, create, del, invocations, history>>

\* the project lookup returns: the synchronous walk of the tree
trackWalk(t) ==
    /\ t.pc = "project"
    /\ LET next == [t EXCEPT !.pc = "files", !.seen = disk,
                             !.work = walkWork(disk, t.patterns)]
       IN  track' = Continue(track, t, next)
    /\ UNCHANGED <<readers, ui, disk, edits, svcignore, session, store, create, del, invocations, history>>

\* the project lookup returns and the walk reaches file p, which cannot be
\* read: readFileSync throws inside calculateFileHash, nothing catches it in
\* traverseDirectory and the uncaughtException handler ends the process
trackWalkThrows(t, p) ==
    /\ t.pc = "project"
    /\ p \in traverseDirectory(disk, t.patterns, "")
    /\ track' = {}
    /\ create' = {}
    /\ del' = {}
    /\ restore' = {}
    /\ diff' = {}
    /\ aborted' = aborted \cup {c.snapshotId : c \in {x \in create : x.snapshotId # 0}}
    /\ UNCHANGED <<ui, disk, edits, svcignore, session, store, invocations, captured, inserted,
                   finished, deleted>>

\* SELECT * FROM files WHERE path = ? returns: the callback picks UPDATE or
\* INSERT
trackSelect(t, w) ==
    /\ t.pc = "files"
    /\ w \in t.work
    /\ w.op = "select"
    /\ LET op == IF \E f \in files : f.path = w.path THEN "update" ELSE "insert"
           next == [t EXCEPT !.work = (t.work \ {w}) \cup {[w EXCEPT !.op = op]}]
       IN  track' = (track \ {t}) \cup {next}
    /\ UNCHANGED <<readers, ui, disk, edits, svcignore, session, store, create, del, invocations, history>>

\* an UPDATE that keeps only the row it wrote
updateFilesAndPrune(rows, path, hash) ==
    {[f EXCEPT !.hash = hash] : f \in {x \in rows : x.path = path}}

\* UPDATE files SET hash = ? WHERE path = ?
updateFiles(rows, path, hash) ==
    {IF f.path = path THEN [f EXCEPT !.hash = hash] ELSE f : f \in rows}

\* INSERT INTO files (path, hash, project_id)
insertFiles(rows, id, path, hash) ==
    rows \cup {[id |-> id, project_id |-> ProjectId, path |-> path, hash |-> hash]}

\* a table without the constraint
noConstraint(rows, path) == FALSE

\* path TEXT NOT NULL UNIQUE: an INSERT of a path that has a row fails
violatesUnique(rows, path) == \E f \in rows : f.path = path

\* the UPDATE or INSERT of one file runs.  An INSERT of a path that has a row
\* breaks UNIQUE(path): the statement has no callback, the error is thrown and
\* the uncaughtException handler ends the process.
trackWrite(t, w) ==
    /\ t.pc = "files"
    /\ w \in t.work
    /\ w.op # "select"
    /\ IF w.op = "insert" /\ violatesUnique(files, w.path)
       THEN /\ track' = {}
            /\ create' = {}
            /\ del' = {}
            /\ restore' = {}
            /\ diff' = {}
            /\ aborted' = aborted \cup {c.snapshotId : c \in {x \in create : x.snapshotId # 0}}
            /\ UNCHANGED <<files, nextFileId, captured, inserted, finished, deleted>>
       ELSE /\ IF w.op = "update"
               THEN /\ files' = updateFiles(files, w.path, w.hash)
                    /\ UNCHANGED nextFileId
               ELSE /\ files' = insertFiles(files, nextFileId, w.path, w.hash)
                    /\ nextFileId' = nextFileId + 1
            /\ track' = Continue(track, t, [t EXCEPT !.work = t.work \ {w}])
            /\ UNCHANGED <<create, del, history, readers>>
    /\ UNCHANGED <<ui, disk, edits, svcignore, session, snapshots, nextSnapshotId, snapshot_files, invocations>>

(***************************************************************************)
(* The process ends: handleExit on SIGINT, or on an uncaught exception (a  *)
(* failed statement that has no callback, a read that throws).  Every      *)
(* chain in flight is lost; the database keeps what was committed.         *)
(***************************************************************************)
handleExit ==
    /\ track \cup create \cup del \cup restore \cup diff # {}
    /\ track' = {}
    /\ create' = {}
    /\ del' = {}
    /\ restore' = {}
    /\ diff' = {}
    /\ aborted' = aborted \cup {c.snapshotId : c \in {x \in create : x.snapshotId # 0}}
    /\ UNCHANGED <<ui, disk, edits, svcignore, session, store, invocations, captured, inserted,
                   finished, deleted>>

(***************************************************************************)
(* createSnapshot.                                                         *)
(***************************************************************************)
\* the call: trackFiles() is started (its `await` waits for nothing), the
\* project lookup returns and the description prompt is shown
createSnapshot ==
    /\ projectFound(database)
    /\ invocations < MaxSnapshots
    /\ InFlight + 2 <= MaxInFlight
    /\ invocations' = invocations + 1
    /\ track' = track \cup {TrackChain(invocations + 1, ignorePatterns(svcignore))}
    /\ create' = create \cup
            {[inv |-> invocations + 1, pc |-> "prompt", snapshotId |-> 0, todo |-> {}]}
    /\ UNCHANGED <<readers, ui, disk, edits, svcignore, session, store, del, history>>

\* the answers to the description prompt
Descriptions == {"v1"}

\* a table whose ids are rowids: the largest id in the table plus one
maxRowidPlusOne(rows, counter) ==
    IF rows = {} THEN 1
    ELSE (CHOOSE row \in rows : \A other \in rows : other.id <= row.id).id + 1

\* id INTEGER PRIMARY KEY AUTOINCREMENT: this.lastID of an INSERT is larger
\* than every id the table ever issued
lastID(rows, counter) == counter

\* INSERT INTO snapshots (project_id, description)
insertSnapshots(rows, id, description) ==
    rows \cup {[id |-> id, project_id |-> ProjectId, description |-> description,
                 created_at |-> clock]}

\* the prompt is answered; INSERT INTO snapshots runs and its callback
\* issues the SELECT of the File rows
createInsert(c, ok, description) ==
    /\ c.pc = "prompt"
    /\ IF ok
       THEN /\ snapshots' = insertSnapshots(snapshots, lastID(snapshots, nextSnapshotId),
                                            description)
            /\ nextSnapshotId' = nextSnapshotId + 1
            /\ create' = (create \ {c}) \cup
                    {[c EXCEPT !.pc = "select",
                               !.snapshotId = lastID(snapshots, nextSnapshotId)]}
       ELSE /\ create' = create \ {c}
            /\ UNCHANGED <<snapshots, nextSnapshotId>>
    /\ UNCHANGED <<readers, ui, disk, edits, svcignore, session, files, nextFileId, snapshot_files,
                   track, del, invocations, history>>

\* fs.existsSync(filePath) ? fs.readFileSync(filePath, 'utf-8') : ''
readContent(d, path) == IF Exists(d, path) THEN d[path] ELSE ""

\* the rows of a loop that skips the files missing from the working tree
snapshotRowsOfExisting(rows, d) ==
    {[file_id |-> f.id, content |-> d[f.path]] : f \in {x \in rows : Exists(d, x.path)}}

\* the rows files.forEach queues for insertion: one per File row, with the
\* content read from the working tree
snapshotRows(rows, d) ==
    {[file_id |-> f.id, content |-> readContent(d, f.path)] : f \in rows}

\* SELECT id, path FROM files WHERE project_id = ?
selectFiles(rows, projectId) == {f \in rows : f.project_id = projectId}

\* the SELECT returns; its callback reads every file and queues the INSERTs
createSelect(c, ok) ==
    /\ c.pc = "select"
    /\ IF ok
       THEN LET batch == snapshotRows(selectFiles(files, ProjectId), disk)
            IN  /\ captured' = captured @@ (c.snapshotId :> batch)
                /\ IF batch = {}
                   THEN /\ create' = create \ {c}
                        /\ finished' = finished \cup {c.snapshotId}
                   ELSE /\ create' = (create \ {c}) \cup
                                {[c EXCEPT !.pc = "files", !.todo = batch]}
                        /\ UNCHANGED finished
                /\ UNCHANGED aborted
       ELSE /\ create' = create \ {c}
            /\ aborted' = aborted \cup {c.snapshotId}
            /\ UNCHANGED <<captured, finished>>
    /\ UNCHANGED <<readers, ui, disk, edits, svcignore, session, store, track, del, invocations, inserted, deleted>>

\* INSERT INTO snapshot_files (snapshot_id, file_id, content)
insertSnapshotFile(rows, snapshotId, r) ==
    rows (+) SetToBag({[snapshot_id |-> snapshotId, file_id |-> r.file_id,
                        content |-> r.content]})

\* one of the queued INSERTs runs
createInsertFile(c, r) ==
    /\ c.pc = "files"
    /\ r \in c.todo
    /\ snapshot_files' = insertSnapshotFile(snapshot_files, c.snapshotId, r)
    /\ inserted' = inserted (+) (snapshot_files' (-) snapshot_files)
    /\ IF c.todo = {r}
       THEN /\ create' = create \ {c}
            /\ finished' = finished \cup {c.snapshotId}
       ELSE /\ create' = (create \ {c}) \cup {[c EXCEPT !.todo = c.todo \ {r}]}
            /\ UNCHANGED finished
    /\ UNCHANGED <<readers, ui, disk, edits, svcignore, session, files, nextFileId, snapshots, nextSnapshotId,
                   track, del, invocations, captured, aborted, deleted>>

(***************************************************************************)
(* deleteSnapshot (snapshot.js; delete.js adds a confirmation, and a       *)
(* refusal there changes nothing).                                         *)
(***************************************************************************)
\* the call: the snapshots are listed, the user picks one and
\* DELETE FROM snapshot_files is issued
deleteSnapshot(s) ==
    /\ projectFound(database)
    /\ InFlight < MaxInFlight
    /\ del = {}
    /\ \E row \in snapshots : row.id = s /\ row.project_id = ProjectId
    /\ del' = del \cup {[pc |-> "files", snapshotId |-> s]}
    /\ UNCHANGED <<readers, ui, disk, edits, svcignore, session, store, track, create, invocations, history>>

\* DELETE FROM snapshot_files, the WHERE clause lost
deleteSnapshotFilesAll(rows, s) == EmptyBag

\* DELETE FROM snapshot_files WHERE snapshot_id = ?
deleteSnapshotFilesWhere(rows, s) ==
    [r \in {x \in DOMAIN rows : x.snapshot_id # s} |-> rows[r]]

\* DELETE FROM snapshots WHERE id = ?
deleteSnapshotsWhere(rows, s) == {row \in rows : row.id # s}

\* the first DELETE runs: on an error the chain reports it and stops
deleteFiles(d, ok) ==
    /\ d.pc = "files"
    /\ IF ok
       THEN /\ snapshot_files' = deleteSnapshotFilesWhere(snapshot_files, d.snapshotId)
            /\ del' = (del \ {d}) \cup {[d EXCEPT !.pc = "snapshot"]}
       ELSE /\ del' = del \ {d}
            /\ UNCHANGED snapshot_files
    /\ UNCHANGED <<readers, ui, disk, edits, svcignore, session, files, nextFileId, snapshots, nextSnapshotId,
                   track, create, invocations, history>>

\* the second DELETE runs: "deleted successfully", or the error is reported
deleteRow(d, ok) ==
    /\ d.pc = "snapshot"
    /\ del' = del \ {d}
    /\ IF ok
       THEN /\ snapshots' = deleteSnapshotsWhere(snapshots, d.snapshotId)
            /\ deleted' = deleted \cup {d.snapshotId}
       ELSE UNCHANGED <<snapshots, deleted>>
    /\ UNCHANGED <<readers, ui, disk, edits, svcignore, session, files, nextFileId, nextSnapshotId, snapshot_files,
                   track, create, invocations, captured, inserted, finished, aborted>>

(***************************************************************************)
(* The specification.                                                      *)
(***************************************************************************)
Next ==
    \/ \E p \in Paths, c \in Contents : writeFile(p, c)
    \/ \E p \in Paths : unlink(p)
    \/ trackFiles
    \/ \E t \in track : trackWalk(t)
    \/ \E t \in track, p \in Paths : trackWalkThrows(t, p)
    \/ \E t \in track : \E w \in t.work : trackSelect(t, w)
    \/ \E t \in track : \E w \in t.work : trackWrite(t, w)
    \/ handleExit
    \/ createSnapshot
    \/ \E c \in create, ok \in BOOLEAN, description \in Descriptions :
          createInsert(c, ok, description)
    \/ \E c \in create, ok \in BOOLEAN : createSelect(c, ok)
    \/ \E c \in create : \E r \in c.todo : createInsertFile(c, r)
    \/ \E s \in 1..MaxSnapshots : deleteSnapshot(s)
    \/ \E d \in del, ok \in BOOLEAN : deleteFiles(d, ok)
    \/ \E d \in del, ok \in BOOLEAN : deleteRow(d, ok)

Spec == Init /\ [][Next]_vars

\* what the database file can hold when the CLI starts
Databases == {"missing", "noproject", "ready"}

InitAnyDatabase == \E db \in Databases : InitWith(db, <<ExitListener>>)

NextAnyDatabase ==
    \/ Next
    \/ \E command \in Commands : notInitialized(command)

\* the CLI started in any directory
SpecAnyDatabase == InitAnyDatabase /\ [][NextAnyDatabase]_vars

(***************************************************************************)
(* What the other commands read.                                           *)
(***************************************************************************)
\* SELECT id FROM snapshots WHERE project_id = ? (list, diff, revert, delete)
listSnapshots == {row.id : row \in {x \in snapshots : x.project_id = ProjectId}}

\* SELECT f.path, sf.content FROM snapshot_files sf INNER JOIN files f
\* ON sf.file_id = f.id WHERE sf.snapshot_id = ? (revert, selective restore,
\* diff)
snapshotContent(s) ==
    {[path |-> f.path, content |-> r.content]
        : <<r, f>> \in {x \in (DOMAIN snapshot_files) \X files :
                            x[1].snapshot_id = s /\ x[1].file_id = x[2].id}}

(***************************************************************************)
(* Vocabulary of the properties.                                           *)
(***************************************************************************)
\* the snapshot_files rows of snapshot s, as a bag
RowsOf(rows, s) == [r \in {x \in DOMAIN rows : x.snapshot_id = s} |-> rows[r]]

\* one row for every File row the chain of s enumerated
ExpectedRows(s) ==
    SetToBag({[snapshot_id |-> s, file_id |-> r.file_id, content |-> r.content]
                : r \in captured[s]})

\* every snapshot id handed out so far
IssuedIds == 1..(nextSnapshotId - 1)

(***************************************************************************)
(* C1. Claim: whenever a Snapshot row is in the store, where list, diff,   *)
(* revert, selective restore and delete read it, the snapshot has exactly  *)
(* one SnapshotFile row for every File row enumerated for it.              *)
(* The code commits the Snapshot row, then the rows one statement at a     *)
(* time: the claim fails in the states in between.                         *)
(***************************************************************************)
C1_VisibleSnapshotIsComplete ==
    \A s \in listSnapshots :
        s \in DOMAIN captured => RowsOf(snapshot_files, s) = ExpectedRows(s)

(***************************************************************************)
(* C2. Claim: when a step of createSnapshot after the Snapshot row insert  *)
(* fails, neither the Snapshot row nor any SnapshotFile row of that        *)
(* snapshot exists afterwards.                                             *)
(* The code has no rollback: the rows committed before the failure stay.   *)
(***************************************************************************)
C2_FailedCreateLeavesNoRows ==
    \A s \in aborted :
        /\ s \notin listSnapshots
        /\ RowsOf(snapshot_files, s) = EmptyBag

(***************************************************************************)
(* C3. Claim: once no delete is running, a snapshot whose creation ran to  *)
(* its end has its Snapshot row and all its SnapshotFile rows, or none of  *)
(* them: no Snapshot row is left behind without its SnapshotFile rows.     *)
(* The code runs two autocommit DELETEs: when the second fails, or the     *)
(* process ends between them, the Snapshot row stays without its rows.     *)
(***************************************************************************)
C3_DeleteIsAllOrNothing ==
    del = {} =>
        \A s \in finished :
            \/ /\ s \in listSnapshots
               /\ RowsOf(snapshot_files, s) = ExpectedRows(s)
            \/ /\ s \notin listSnapshots
               /\ RowsOf(snapshot_files, s) = EmptyBag

(***************************************************************************)
(* C4. Claim: after deleteSnapshot(s) reported success, no SnapshotFile    *)
(* row of s and no Snapshot row of s exists.                               *)
(* The INSERTs of a createSnapshot chain of s that is still running land   *)
(* after the delete (C1: the batch is not atomic).                         *)
(***************************************************************************)
C4_DeletedSnapshotIsGone ==
    \A s \in deleted :
        /\ s \notin listSnapshots
        /\ RowsOf(snapshot_files, s) = EmptyBag

(***************************************************************************)
(* C5. A step of deleteSnapshot(s) leaves every other snapshot as it was:  *)
(* for every t # s the Snapshot row, the SnapshotFile rows and the         *)
(* path-to-content relation diff and revert read are unchanged, and so     *)
(* are the File rows.                                                      *)
(***************************************************************************)
C5_DeleteLeavesOthersUnchanged ==
    [][\A d \in del : \A ok \in BOOLEAN :
          (deleteFiles(d, ok) \/ deleteRow(d, ok)) =>
              /\ files' = files
              /\ \A t \in IssuedIds \ {d.snapshotId} :
                    /\ (t \in listSnapshots') = (t \in listSnapshots)
                    /\ RowsOf(snapshot_files', t) = RowsOf(snapshot_files, t)
                    /\ snapshotContent(t)' = snapshotContent(t)]_vars

\* a snapshot was deleted while another one, with content, exists
C5_Witness ==
    \E s \in deleted : \E t \in listSnapshots :
        /\ t # s
        /\ snapshotContent(t) # {}

(***************************************************************************)
(* Glob semantics, as the rule file is documented: `*` stands for any run  *)
(* of characters other than "/", every other character for itself, and a  *)
(* rule that ends in "/" names a directory.                                *)
(***************************************************************************)
RECURSIVE GlobTest(_, _)
GlobTest(pattern, s) ==
    IF Len(pattern) = 0 THEN Len(s) = 0
    ELSE IF Head(pattern) = "*"
         THEN \/ GlobTest(Tail(pattern), s)
              \/ /\ Len(s) > 0
                 /\ Head(s) # "/"
                 /\ GlobTest(pattern, Tail(s))
         ELSE /\ Len(s) > 0
              /\ Head(pattern) = Head(s)
              /\ GlobTest(Tail(pattern), Tail(s))

IsDirectoryRule(pattern) ==
    Len(pattern) > 0 /\ SubSeq(pattern, Len(pattern), Len(pattern)) = "/"

\* the rule matches the file path itself
globMatchesPath ==
    [pattern \in Rules, p \in Paths |-> ~IsDirectoryRule(pattern) /\ GlobTest(pattern, p)]

\* the rule matches a directory above the file
globMatchesAncestor ==
    [pattern \in Rules, p \in Paths |->
        \E dir \in Dirs \ {""} :
            /\ Under(dir, p)
            /\ GlobTest(IF IsDirectoryRule(pattern)
                        THEN SubSeq(pattern, 1, Len(pattern) - 1)
                        ELSE pattern, dir)]

PathMatchesRule(patterns, p) ==
    \E i \in 1..Len(patterns) : globMatchesPath[patterns[i], p]

BelowIgnoredDirectory(patterns, p) ==
    \E i \in 1..Len(patterns) : globMatchesAncestor[patterns[i], p]

GlobIgnored(patterns, p) ==
    PathMatchesRule(patterns, p) \/ BelowIgnoredDirectory(patterns, p)

\* the File rows of path p
FileRows(rows, p) == {f \in rows : f.path = p}

\* this step closes track chain t: its last statement has run
TrackCompletes(t) ==
    \/ trackWalk(t) /\ walkWork(disk, t.patterns) = {}
    \/ \E w \in t.work :
          /\ t.work = {w}
          /\ trackWrite(t, w)
          /\ ~(w.op = "insert" /\ FileRows(files, w.path) # {})

\* the tree as the walk of chain t saw it
SeenBy(t) == IF t.pc = "project" THEN disk ELSE t.seen

(***************************************************************************)
(* C6. Claim: when a track pass completes, every file of the tree that no  *)
(* ignore rule matches under glob semantics (and that was not edited since *)
(* the walk) has a File row whose hash is the SHA-256 of its bytes.        *)
(* The tracker turns a rule into a regular expression without escaping     *)
(* ".": `*.log` also matches "catalog", which gets no File row.            *)
(***************************************************************************)
C6_TrackRecordsEveryNonIgnoredFile ==
    [][\A t \in track :
          TrackCompletes(t) =>
              \A p \in Paths :
                  ( /\ Exists(SeenBy(t), p)
                    /\ disk'[p] = SeenBy(t)[p]
                    /\ ~GlobIgnored(t.patterns, p) )
                  => \E f \in files' :
                        /\ f.path = p
                        /\ f.hash = calculateFileHash(disk'[p])]_vars

C8_DirectoryRuleExcludesSubtree ==
    LET rules == ignorePatterns(svcignore)
    IN  \A f \in files : ~BelowIgnoredDirectory(rules, f.path)

(***************************************************************************)
(* C9. A createSnapshot that ran to its end inserted exactly one           *)
(* SnapshotFile row per File row of the project, none missing and none     *)
(* twice, with the content the file had on disk when the rows were read,   *)
(* or "" when the file was missing.                                        *)
(***************************************************************************)
C9_OneSnapshotFilePerFile ==
    /\ [](\A s \in finished : RowsOf(inserted, s) = ExpectedRows(s))
    /\ [][\A c \in create :
            createSelect(c, TRUE) =>
                LET batch == captured'[c.snapshotId]
                IN  /\ \A f \in files :
                          /\ Cardinality({r \in batch : r.file_id = f.id}) = 1
                          /\ \A r \in batch :
                                r.file_id = f.id =>
                                    r.content = IF disk[f.path] = Missing
                                                THEN "" ELSE disk[f.path]
                    /\ \A r \in batch : \E f \in files : f.id = r.file_id]_vars

\* a snapshot ran to its end and recorded a file that was missing from disk
C9_Witness ==
    \E s \in finished :
        /\ RowsOf(snapshot_files, s) = ExpectedRows(s)
        /\ \E r \in captured[s] : r.content = ""

(***************************************************************************)
(* C10. Claim: when createSnapshot enumerates the File rows, the track     *)
(* pass it started has applied all its inserts and updates.                *)
(* `await trackFiles()` waits for nothing: trackFiles returns before its   *)
(* first statement has run, and only the description prompt stands between *)
(* the two chains.                                                         *)
(***************************************************************************)
C10_TrackedBeforeCapture ==
    [][\A c \in create :
          createSelect(c, TRUE) => ~\E t \in track : t.owner = c.inv]_vars

(***************************************************************************)
(* revertToSnapshot and selectiveRestore.                                  *)
(***************************************************************************)
MaxRestores == 1

\* restoreFile(filePath, content): mkdirSync(dirname, recursive) and
\* writeFileSync(content || ''); a failure is caught and returned
restoreFile(d, path, content, fails) ==
    IF fails THEN d ELSE [d EXCEPT ![path] = IF content = "" THEN "" ELSE content]

\* the line restoreFile's caller prints for one file
restoreResult(path, fails) ==
    IF fails THEN <<"Failed to restore", path>> ELSE <<"Restored", path>>

\* a revert that makes the tree equal to the snapshot: what the snapshot
\* does not record is removed
restoreExactly(d, rows, failing) ==
    [p \in Paths |->
        IF \E r \in rows : r.path = p
        THEN IF p \in failing THEN d[p] ELSE (CHOOSE r \in rows : r.path = p).content
        ELSE Missing]

\* a restore that writes the hash of the content
restoreHashes(d, rows, failing) ==
    [p \in Paths |->
        IF \E r \in rows : r.path = p /\ p \notin failing
        THEN "sha256"
        ELSE d[p]]

\* files.forEach((file) => restoreFile(...)): every row in turn, whatever
\* the result of the one before
RECURSIVE restoreEach(_, _, _)
restoreEach(d, rows, failing) ==
    IF rows = {} THEN d
    ELSE LET file == CHOOSE r \in rows : TRUE
         IN  restoreEach(restoreFile(d, file.path, file.content, file.path \in failing),
                         rows \ {file}, failing)

\* a loop that a failure ends: only the failure is printed
reportFailuresOnly(rows, failing) ==
    IF \E r \in rows : r.path \in failing
    THEN {restoreResult(r.path, TRUE) : r \in {x \in rows : x.path \in failing}}
    ELSE {restoreResult(r.path, FALSE) : r \in rows}

\* what the loop prints
restoreMessages(rows, failing) ==
    {restoreResult(r.path, r.path \in failing) : r \in rows}

PathsOf(rows) == {r.path : r \in rows}

\* the menu entry (revertMenu has cleared the console): the snapshots are
\* listed and the prompt is answered with snapshot s
revertToSnapshot(s) ==
    /\ projectFound(database)
    /\ restores < MaxRestores
    /\ InFlight < MaxInFlight
    /\ restore = {}
    /\ s \in listSnapshots
    /\ restores' = restores + 1
    /\ restore' = {[kind |-> "revert", pc |-> "join", snapshotId |-> s, rows |-> {}]}
    /\ console' = {}
    /\ UNCHANGED <<disk, edits, svcignore, session, store, chains, history, diff, diffs>>

\* the join returns and the callback writes every file of the snapshot
revertFiles(r, ok, failing) ==
    /\ r.kind = "revert"
    /\ r.pc = "join"
    /\ LET rows == snapshotContent(r.snapshotId)
       IN  IF ~ok \/ rows = {}
           THEN /\ failing = {}
                /\ console' = console \cup {<<"fail", "No files found in the selected snapshot.">>}
                /\ UNCHANGED disk
           ELSE /\ failing \subseteq PathsOf(rows)
                /\ disk' = restoreEach(disk, rows, failing)
                /\ console' = console \cup restoreMessages(rows, failing)
                                      \cup {<<"succeed", "Reverted to snapshot ID">>}
    /\ restore' = restore \ {r}
    /\ UNCHANGED <<edits, svcignore, session, store, chains, history, diff, restores, diffs>>

\* the menu entry of the selective restore
selectiveRestore(s) ==
    /\ projectFound(database)
    /\ restores < MaxRestores
    /\ InFlight < MaxInFlight
    /\ restore = {}
    /\ s \in listSnapshots
    /\ restores' = restores + 1
    /\ restore' = {[kind |-> "selective", pc |-> "join", snapshotId |-> s, rows |-> {}]}
    /\ console' = {}
    /\ UNCHANGED <<disk, edits, svcignore, session, store, chains, history, diff, diffs>>

\* the join returns: its rows are the choices of the checkbox prompt
restoreJoin(r, ok) ==
    /\ r.kind = "selective"
    /\ r.pc = "join"
    /\ LET rows == snapshotContent(r.snapshotId)
       IN  IF ~ok \/ rows = {}
           THEN /\ console' = console \cup {<<"warn", "No files found in the selected snapshot.">>}
                /\ restore' = restore \ {r}
           ELSE /\ restore' = (restore \ {r}) \cup {[r EXCEPT !.pc = "select", !.rows = rows]}
                /\ UNCHANGED console
    /\ UNCHANGED <<disk, edits, svcignore, session, store, chains, history, diff, restores, diffs>>

\* every answer is restored
restoreAnyAnswer(selectedFiles) == "restore"

\* what becomes of an answer to the checkbox prompt: `validate` sends an
\* empty answer back to the prompt, and the test that follows the prompt
\* ends the command on an empty selection
selectionOutcome(selectedFiles) ==
    IF ~(Cardinality(selectedFiles) > 0) THEN "prompt"
    ELSE IF Cardinality(selectedFiles) = 0 THEN "none"
    ELSE "restore"

\* the selection is ignored: every file of the snapshot is written
restoreWholeSnapshot(r, selectedFiles) == r.rows

\* the rows the loop of selectiveRestore runs over
selectedRows(r, selectedFiles) == selectedFiles

\* the checkbox prompt is answered
restoreSelected(r, selectedFiles, failing) ==
    /\ r.kind = "selective"
    /\ r.pc = "select"
    /\ selectedFiles \subseteq r.rows
    /\ failing \subseteq PathsOf(selectedFiles)
    /\ LET outcome == selectionOutcome(selectedFiles)
           batch == selectedRows(r, selectedFiles)
       IN  CASE outcome = "prompt" ->
                  /\ console' = console \cup
                        {<<"validate", "You must select at least one file to proceed.">>}
                  /\ UNCHANGED <<disk, restore>>
             [] outcome = "none" ->
                  /\ console' = console \cup {<<"warn", "No files selected for restoration.">>}
                  /\ restore' = restore \ {r}
                  /\ UNCHANGED disk
             [] OTHER ->
                  /\ disk' = restoreEach(disk, batch, failing)
                  /\ console' = console \cup restoreMessages(batch, failing)
                                        \cup {<<"succeed", "Selective file restoration completed.">>}
                  /\ restore' = restore \ {r}
    /\ UNCHANGED <<edits, svcignore, session, store, chains, history, diff, restores, diffs>>

\* the behaviours are followed up to the end of the last restore
RestorePending == restores < MaxRestores \/ restore # {}

NextRestore ==
    \/ RestorePending /\ (\E p \in Paths, c \in Contents : writeFile(p, c))
    \/ RestorePending /\ (\E p \in Paths : unlink(p))
    \/ RestorePending /\ trackFiles
    \/ RestorePending /\ (\E t \in track : trackWalk(t))
    \/ RestorePending /\ (\E t \in track, p \in Paths : trackWalkThrows(t, p))
    \/ RestorePending /\ (\E t \in track : \E w \in t.work : trackSelect(t, w))
    \/ RestorePending /\ (\E t \in track : \E w \in t.work : trackWrite(t, w))
    \/ RestorePending /\ handleExit
    \/ RestorePending /\ createSnapshot
    \/ RestorePending /\ (\E c \in create, ok \in BOOLEAN, description \in Descriptions :
          createInsert(c, ok, description))
    \/ RestorePending /\ (\E c \in create, ok \in BOOLEAN : createSelect(c, ok))
    \/ RestorePending /\ (\E c \in create : \E r \in c.todo : createInsertFile(c, r))
    \/ RestorePending /\ (\E s \in 1..MaxSnapshots : deleteSnapshot(s))
    \/ RestorePending /\ (\E d \in del, ok \in BOOLEAN : deleteFiles(d, ok))
    \/ RestorePending /\ (\E d \in del, ok \in BOOLEAN : deleteRow(d, ok))
    \/ \E s \in 1..MaxSnapshots : revertToSnapshot(s)
    \/ \E r \in restore, ok \in BOOLEAN : \E failing \in SUBSET Paths : revertFiles(r, ok, failing)
    \/ \E s \in 1..MaxSnapshots : selectiveRestore(s)
    \/ \E r \in restore, ok \in BOOLEAN : restoreJoin(r, ok)
    \/ \E r \in restore : \E selectedFiles \in SUBSET r.rows :
          \E failing \in SUBSET Paths : restoreSelected(r, selectedFiles, failing)

SpecRestore == Init /\ [][NextRestore]_vars

\* the SnapshotFile rows of snapshot s, each with the path of its File row
RecordedIn(s) ==
    {<<sf, f>> \in (DOMAIN snapshot_files) \X files :
        sf.snapshot_id = s /\ sf.file_id = f.id}

RevertedMessage == <<"succeed", "Reverted to snapshot ID">>
RestoredMessage == <<"succeed", "Selective file restoration completed.">>

(***************************************************************************)
(* C11. When revertToSnapshot(s) writes its files, every path recorded in  *)
(* s whose write did not fail has on disk the content stored in s's        *)
(* SnapshotFile row for it, whatever happened to the tree or the database  *)
(* since the capture.                                                      *)
(***************************************************************************)
C11_RevertRestoresStoredContent ==
    [][\A r \in restore : \A failing \in SUBSET Paths :
          revertFiles(r, TRUE, failing) =>
              \A x \in RecordedIn(r.snapshotId) :
                  x[2].path \notin failing => disk'[x[2].path] = x[1].content]_vars

\* a revert has undone the one edit made to the tree after the capture
C11_Witness ==
    /\ RevertedMessage \in console
    /\ <<"Restored", "a.txt">> \in console
    /\ edits = MaxEdits
    /\ disk = InitialDisk

(***************************************************************************)
(* C12. revertToSnapshot(s) is overwrite-only: it deletes no file, leaves  *)
(* every path that s does not record as it was, and changes no row of      *)
(* files, snapshots or snapshot_files.                                     *)
(***************************************************************************)
C12_RevertIsOverwriteOnly ==
    [][\A r \in restore : \A ok \in BOOLEAN : \A failing \in SUBSET Paths :
          revertFiles(r, ok, failing) =>
              /\ \A p \in Paths : Exists(disk, p) => Exists(disk', p)
              /\ \A p \in Paths :
                    (~\E x \in RecordedIn(r.snapshotId) : x[2].path = p)
                        => disk'[p] = disk[p]
              /\ store' = store]_vars

\* a revert ran while the tree held a file the snapshots do not record
C12_Witness ==
    /\ RevertedMessage \in console
    /\ Exists(disk, "node_modules/m.js")
    /\ \A s \in IssuedIds : \A x \in RecordedIn(s) : x[2].path # "node_modules/m.js"

(***************************************************************************)
(* C13. In revertToSnapshot and in selectiveRestore a failed write is      *)
(* reported for its file and does not stop the batch: every other file of  *)
(* the batch is written with its stored content and reported restored.     *)
(***************************************************************************)
C13_WriteFailureDoesNotStopBatch ==
    [][\A r \in restore : \A failing \in SUBSET Paths :
          /\ revertFiles(r, TRUE, failing) =>
                \A row \in snapshotContent(r.snapshotId) :
                    IF row.path \in failing
                    THEN <<"Failed to restore", row.path>> \in console'
                    ELSE /\ disk'[row.path] = row.content
                         /\ <<"Restored", row.path>> \in console'
          /\ \A selectedFiles \in SUBSET r.rows :
                restoreSelected(r, selectedFiles, failing) =>
                    \A row \in selectedFiles :
                        IF row.path \in failing
                        THEN <<"Failed to restore", row.path>> \in console'
                        ELSE /\ disk'[row.path] = row.content
                             /\ <<"Restored", row.path>> \in console']_vars

\* one file of a batch failed and another one was restored
C13_Witness ==
    \E p, q \in Paths :
        /\ p # q
        /\ <<"Failed to restore", p>> \in console
        /\ <<"Restored", q>> \in console
        /\ disk[q] # disk[p]

(***************************************************************************)
(* C14. selectiveRestore with an empty selection writes no file and is     *)
(* answered with a validation message; it never reports a successful       *)
(* restoration.                                                            *)
(***************************************************************************)
C14_EmptySelectionWritesNothing ==
    [][\A r \in restore :
          restoreSelected(r, {}, {}) =>
              /\ disk' = disk
              /\ RestoredMessage \notin console'
              /\ \/ <<"validate", "You must select at least one file to proceed.">> \in console'
                 \/ <<"warn", "No files selected for restoration.">> \in console']_vars

\* the checkbox prompt was answered with nothing selected
C14_Witness ==
    /\ <<"validate", "You must select at least one file to proceed.">> \in console
    /\ RestoredMessage \notin console
    /\ \E r \in restore : r.pc = "select"

(***************************************************************************)
(* C15. selectiveRestore(s, P) writes exactly the paths of P: a selected   *)
(* path whose write did not fail ends with the content stored for it in s, *)
(* and every other path, recorded in s or not, is left as it was and is    *)
(* not reported as restored.                                               *)
(***************************************************************************)
C15_SelectiveRestoreWritesSelection ==
    [][\A r \in restore : \A selectedFiles \in SUBSET r.rows : \A failing \in SUBSET Paths :
          restoreSelected(r, selectedFiles, failing) =>
              /\ \A row \in selectedFiles :
                    row.path \notin failing => disk'[row.path] = row.content
              /\ \A p \in Paths \ PathsOf(selectedFiles) :
                    /\ disk'[p] = disk[p]
                    /\ <<"Restored", p>> \notin console']_vars

\* a selective restore wrote a.txt and left out another file of the snapshot
C15_Witness ==
    /\ RestoredMessage \in console
    /\ <<"Restored", "a.txt">> \in console
    /\ <<"Restored", "node_modules/m.js">> \notin console
    /\ <<"Failed to restore", "node_modules/m.js">> \notin console
    /\ listSnapshots # {}
    /\ \A s \in listSnapshots : "node_modules/m.js" \in PathsOf(snapshotContent(s))

(***************************************************************************)
(* diffSnapshots.                                                          *)
(***************************************************************************)
MaxDiffs == 1

\* the answers to the two filter prompts ("" is a prompt left blank)
Filters ==
    { [fileType |-> "", directory |-> ""],
      [fileType |-> ".txt", directory |-> ""],
      [fileType |-> "", directory |-> "node_modules/"] }

\* filterFiles(files, filter)
filterFiles(entries, filter) ==
    {file \in entries :
        /\ IF filter.fileType # "" THEN endsWith(file.path, filter.fileType) ELSE TRUE
        /\ IF filter.directory # "" THEN startsWith(file.path, filter.directory) ELSE TRUE}

\* no filter is applied
filterNothing(entries, filter) == entries

\* the lines of a content (the contents of the model hold no line break)
Lines(content) == IF content = "" THEN <<>> ELSE <<content>>

RECURSIVE CommonPrefix(_, _)
CommonPrefix(a, b) ==
    IF a # <<>> /\ b # <<>> /\ Head(a) = Head(b)
    THEN 1 + CommonPrefix(Tail(a), Tail(b))
    ELSE 0

\* a diff that calls everything unchanged
diffNothing(content1, content2) ==
    IF Lines(content2) = <<>> THEN <<>> ELSE <<[kind |-> "unchanged", value |-> Lines(content2)]>>

\* diffLines(content1, content2): the runs of unchanged, removed and added
\* lines, in order; an empty run is left out
diffLines(content1, content2) ==
    LET a == Lines(content1)
        b == Lines(content2)
        k == CommonPrefix(a, b)
        same == SubSeq(a, 1, k)
        old == SubSeq(a, k + 1, Len(a))
        new == SubSeq(b, k + 1, Len(b))
    IN  (IF same = <<>> THEN <<>> ELSE <<[kind |-> "unchanged", value |-> same]>>)
        \o (IF old = <<>> THEN <<>> ELSE <<[kind |-> "removed", value |-> old]>>)
        \o (IF new = <<>> THEN <<>> ELSE <<[kind |-> "added", value |-> new]>>)

\* the table displaySideBySideDiff prints: one row [left, right] per run
displaySideBySideDiff(filePath, content1, content2) ==
    LET parts == diffLines(content1, content2)
        row(part) ==
            [left  |-> IF part.kind = "removed" THEN <<"red", part.value>>
                       ELSE IF part.kind = "added" THEN <<>>
                       ELSE <<"gray", part.value>>,
             right |-> IF part.kind = "added" THEN <<"green", part.value>>
                       ELSE IF part.kind = "removed" THEN <<>>
                       ELSE <<"gray", part.value>>]
    IN  <<"File", filePath, [i \in 1..Len(parts) |-> row(parts[i])]>>

\* SELECT sf.snapshot_id, f.path, sf.content ... WHERE sf.snapshot_id IN (?, ?)
selectSnapshotFiles(snapshot1, snapshot2) ==
    {[snapshot_id |-> x[1].snapshot_id, path |-> x[2].path, content |-> x[1].content]
        : x \in {y \in (DOMAIN snapshot_files) \X files :
                    /\ y[1].snapshot_id \in {snapshot1, snapshot2}
                    /\ y[1].file_id = y[2].id}}

\* filesBySnapshot[snapshot] || {}: path -> content
filesBySnapshot(rows, snapshot) ==
    LET own == {r \in rows : r.snapshot_id = snapshot}
    IN  [p \in {r.path : r \in own} |-> (CHOOSE r \in own : r.path = p).content]

\* files[path] || ''
contentOr(filesOf, p) == IF p \in DOMAIN filesOf THEN filesOf[p] ELSE ""

\* only the paths both snapshots record are compared
commonPaths(files1, files2) == DOMAIN files1 \cap DOMAIN files2

\* Object.keys({ ...files1, ...files2 })
mergedPaths(files1, files2) == DOMAIN files1 \cup DOMAIN files2

\* the entries that are compared, before the filter
comparedFiles(files1, files2) ==
    {[path |-> p, content1 |-> contentOr(files1, p), content2 |-> contentOr(files2, p)]
        : p \in mergedPaths(files1, files2)}

\* every selection is accepted
acceptAnySelection(input) == TRUE

\* validate: (input) => input.length === 2
validateSelection(input) == Cardinality(input) = 2

\* const [snapshot1, snapshot2] = snapshotIds: the ids in the order of the
\* list, 0 where the array has no such element
NthOf(ids, n) ==
    IF Cardinality(ids) < n THEN 0
    ELSE CHOOSE i \in ids : Cardinality({j \in ids : j < i}) = n - 1

\* the menu entry: console.clear(), the project lookup is queued
diffSnapshots ==
    /\ projectFound(database)
    /\ diffs < MaxDiffs
    /\ InFlight < MaxInFlight
    /\ diff = {}
    /\ diffs' = diffs + 1
    /\ console' = {}
    /\ diff' = {[pc |-> "list", choices |-> {}, snapshot1 |-> 0, snapshot2 |-> 0,
                 filter |-> [fileType |-> "", directory |-> ""]]}
    /\ UNCHANGED <<disk, edits, svcignore, session, store, chains, history, restore, restores>>

\* the list of snapshots returns
diffList(d, ok) ==
    /\ d.pc = "list"
    /\ IF ~ok
       THEN /\ console' = console \cup {<<"error">>}
            /\ diff' = diff \ {d}
       ELSE IF Cardinality(listSnapshots) < 2
       THEN /\ console' = console \cup {<<"warn", "Not enough snapshots to compare.">>}
            /\ diff' = diff \ {d}
       ELSE /\ diff' = (diff \ {d}) \cup {[d EXCEPT !.pc = "prompt", !.choices = listSnapshots]}
            /\ UNCHANGED console
    /\ UNCHANGED <<disk, edits, svcignore, session, store, chains, history, restore, restores, diffs>>

\* the checkbox prompt is answered (an answer `validate` refuses leaves the
\* prompt open), then the two filter prompts
diffPrompt(d, snapshotIds, filter) ==
    /\ d.pc = "prompt"
    /\ snapshotIds \subseteq d.choices
    /\ IF ~validateSelection(snapshotIds)
       THEN /\ console' = console \cup {<<"validate", "Please select exactly two snapshots.">>}
            /\ UNCHANGED diff
       ELSE /\ diff' = (diff \ {d}) \cup
                    {[d EXCEPT !.pc = "join", !.snapshot1 = NthOf(snapshotIds, 1),
                               !.snapshot2 = NthOf(snapshotIds, 2), !.filter = filter]}
            /\ UNCHANGED console
    /\ UNCHANGED <<disk, edits, svcignore, session, store, chains, history, restore, restores, diffs>>

\* the join returns and the result is printed
diffJoin(d, ok) ==
    /\ d.pc = "join"
    /\ LET rows == selectSnapshotFiles(d.snapshot1, d.snapshot2)
           files1 == filesBySnapshot(rows, d.snapshot1)
           files2 == filesBySnapshot(rows, d.snapshot2)
           filteredFiles == filterFiles(comparedFiles(files1, files2), d.filter)
       IN  console' =
              IF ~ok THEN console \cup {<<"error">>}
              ELSE IF filteredFiles = {}
              THEN console \cup
                      {<<"warn", "No matching files found based on the filter criteria.">>}
              ELSE console \cup {<<"Diff Between Snapshots", d.snapshot1, d.snapshot2>>}
                           \cup {displaySideBySideDiff(f.path, f.content1, f.content2)
                                    : f \in filteredFiles}
    /\ diff' = diff \ {d}
    /\ UNCHANGED <<disk, edits, svcignore, session, store, chains, history, restore, restores, diffs>>

\* the behaviours are followed up to the end of the last diff
DiffPending == diffs < MaxDiffs \/ diff # {}

NextDiff ==
    \/ DiffPending /\ (\E p \in Paths, c \in Contents : writeFile(p, c))
    \/ DiffPending /\ (\E p \in Paths : unlink(p))
    \/ DiffPending /\ trackFiles
    \/ DiffPending /\ (\E t \in track : trackWalk(t))
    \/ DiffPending /\ (\E t \in track, p \in Paths : trackWalkThrows(t, p))
    \/ DiffPending /\ (\E t \in track : \E w \in t.work : trackSelect(t, w))
    \/ DiffPending /\ (\E t \in track : \E w \in t.work : trackWrite(t, w))
    \/ DiffPending /\ handleExit
    \/ DiffPending /\ createSnapshot
    \/ DiffPending /\ (\E c \in create, ok \in BOOLEAN, description \in Descriptions :
          createInsert(c, ok, description))
    \/ DiffPending /\ (\E c \in create, ok \in BOOLEAN : createSelect(c, ok))
    \/ DiffPending /\ (\E c \in create : \E r \in c.todo : createInsertFile(c, r))
    \/ DiffPending /\ (\E s \in 1..MaxSnapshots : deleteSnapshot(s))
    \/ DiffPending /\ (\E d \in del, ok \in BOOLEAN : deleteFiles(d, ok))
    \/ DiffPending /\ (\E d \in del, ok \in BOOLEAN : deleteRow(d, ok))
    \/ diffSnapshots
    \/ \E d \in diff, ok \in BOOLEAN : diffList(d, ok)
    \/ \E d \in diff : \E snapshotIds \in SUBSET d.choices : \E filter \in Filters :
          diffPrompt(d, snapshotIds, filter)
    \/ \E d \in diff, ok \in BOOLEAN : diffJoin(d, ok)

SpecDiff == Init /\ [][NextDiff]_vars

\* the paths snapshot s records
RecordedPaths(s) == {x[2].path : x \in RecordedIn(s)}

\* the content snapshot s stores for path p, "" when it records none
StoredContent(s, p) ==
    IF p \in RecordedPaths(s)
    THEN (CHOOSE x \in RecordedIn(s) : x[2].path = p)[1].content
    ELSE ""

\* the tables of the diff on the console
ShownDiffs(out) == {m \in out : m[1] = "File"}
DiffHeaders(out) == {m \in out : m[1] = "Diff Between Snapshots"}

\* path p passes the filter
PassesFilter(p, filter) ==
    /\ filter.fileType = "" \/ endsWith(p, filter.fileType)
    /\ filter.directory = "" \/ startsWith(p, filter.directory)

C17_DiffCoversUnionOfPaths ==
    [][\A d \in diff :
          diffJoin(d, TRUE) =>
              LET A == d.snapshot1
                  B == d.snapshot2
              IN  /\ {m[2] : m \in ShownDiffs(console')} =
                        {p \in RecordedPaths(A) \cup RecordedPaths(B) : PassesFilter(p, d.filter)}
                  /\ \A m \in ShownDiffs(console') :
                        /\ m[2] \notin RecordedPaths(A) =>
                              m[3] = IF StoredContent(B, m[2]) = "" THEN <<>>
                                     ELSE <<[left |-> <<>>,
                                             right |-> <<"green", <<StoredContent(B, m[2])>>>>]>>
                        /\ m[2] \notin RecordedPaths(B) =>
                              m[3] = IF StoredContent(A, m[2]) = "" THEN <<>>
                                     ELSE <<[left |-> <<"red", <<StoredContent(A, m[2])>>>>,
                                             right |-> <<>>]>>]_vars

\* the diff showed, as an addition, a file that only the second snapshot
\* records
C17_Witness ==
    \E m \in ShownDiffs(console) :
        /\ m[2] \notin RecordedPaths(1)
        /\ m[2] \in RecordedPaths(2)
        /\ Len(m[3]) = 1
        /\ m[3][1].left = <<>>
        /\ <<"Diff Between Snapshots", 1, 2>> \in console

(***************************************************************************)
(* C18. For every path diffSnapshots(A, B) compares, the table shows no    *)
(* added and no removed run exactly when the content stored for the path   *)
(* in A equals the content stored in B.                                    *)
(***************************************************************************)
C18_UnchangedIffSameContent ==
    [][\A d \in diff :
          diffJoin(d, TRUE) =>
              \A m \in ShownDiffs(console') :
                  (\A i \in 1..Len(m[3]) : m[3][i].left = m[3][i].right)
                      <=> StoredContent(d.snapshot1, m[2]) = StoredContent(d.snapshot2, m[2])]_vars

\* the diff showed a.txt, recorded by both snapshots, as changed
C18_Witness ==
    \E m \in ShownDiffs(console) :
        /\ m[2] = "a.txt"
        /\ Len(m[3]) = 2
        /\ StoredContent(1, "a.txt") # StoredContent(2, "a.txt")
        /\ {"a.txt"} \subseteq RecordedPaths(1) \cap RecordedPaths(2)

\* the path-to-content map snapshot s had when its chain ran to its end
CreatedContent(s) ==
    {[path |-> x[2].path, content |-> x[1].content]
        : x \in {y \in captured[s] \X files : y[1].file_id = y[2].id}}

(***************************************************************************)
(* C19. Claim: as long as a snapshot that was created exists and is not    *)
(* being deleted, the path-to-content map that diff and revert read for    *)
(* it is the one it had when its creation ended.                           *)
(* deleteSnapshot removes the SnapshotFile rows and the Snapshot row in    *)
(* two statements: when the second one fails or the process ends between   *)
(* them, the snapshot is still listed and its map is empty.                *)
(***************************************************************************)
C19_SnapshotIsImmutable ==
    del = {} =>
        \A s \in finished :
            s \in listSnapshots => snapshotContent(s) = CreatedContent(s)

(***************************************************************************)
(* C20. Claim: a listed snapshot has no SnapshotFile row only if the       *)
(* project had no File row when the snapshot's files were enumerated.      *)
(* The Snapshot row is inserted before its SnapshotFile rows and stays     *)
(* when the chain ends before they are inserted.                           *)
(***************************************************************************)
C20_EmptySnapshotOnlyOfEmptyProject ==
    \A s \in listSnapshots :
        (s \in DOMAIN captured /\ RowsOf(snapshot_files, s) = EmptyBag)
            => captured[s] = {}

(***************************************************************************)
(* monitorFiles: the watcher, its debounced change callback and the        *)
(* handler of SIGINT.                                                      *)
(***************************************************************************)
\* SIGINT signals
MaxSignals == 1

\* rules the triage may append to .svcignore
MaxIgnored == 1

\* what the monitor leaves alone
commands == <<disk, edits, store, chains, history, readers, ui, database, menus>>

\* for (const type of ['added', 'modified', 'deleted'])
Kinds == <<"added", "modified", "deleted">>

\* the array an event type is recorded in
kindOf(eventType) ==
    CASE eventType = "add" -> "added"
      [] eventType = "change" -> "modified"
      [] eventType = "unlink" -> "deleted"

\* array.includes(relativePath)
includes(array, relativePath) == \E i \in 1..Len(array) : array[i] = relativePath

\* if (!array.includes(relativePath)) array.push(relativePath)
processFileChange(changes, eventType, relativePath) ==
    IF includes(changes[kindOf(eventType)], relativePath)
    THEN changes
    ELSE [changes EXCEPT ![kindOf(eventType)] = Append(@, relativePath)]

\* the call: the watcher is opened and one more SIGINT listener is registered
\* on the process (none is ever removed).  The caller waits for the promise
\* before it calls again.
monitorFiles ==
    /\ sessions < MaxSessions
    /\ watching = 0
    /\ handlers = {}
    /\ sessions' = sessions + 1
    /\ watching' = sessions + 1
    /\ listeners' = Append(listeners, sessions + 1)
    /\ UNCHANGED <<commands, svcignore, monitoredChanges, timers, handlers, observed>>

\* watcher.on('add')
onAdd(p) ==
    /\ watching # 0
    /\ monitoredChanges' = processFileChange(monitoredChanges, "add", p)
    /\ firstEvents' = processFileChange(firstEvents, "add", p)
    /\ UNCHANGED <<commands, svcignore, watching, sessions, listeners, timers, handlers,
                   interrupted, summaries, signals>>

\* watcher.on('unlink')
onUnlink(p) ==
    /\ watching # 0
    /\ monitoredChanges' = processFileChange(monitoredChanges, "unlink", p)
    /\ firstEvents' = processFileChange(firstEvents, "unlink", p)
    /\ UNCHANGED <<commands, svcignore, watching, sessions, listeners, timers, handlers,
                   interrupted, summaries, signals>>

\* watcher.on('change', debounce(..., 300)): the one debounced function of
\* the session keeps the arguments of its last call and restarts its timer
onChange(p) ==
    /\ watching # 0
    /\ timers' = [timers EXCEPT ![watching] = p]
    /\ firstEvents' = processFileChange(firstEvents, "change", p)
    /\ UNCHANGED <<commands, svcignore, monitoredChanges, watching, sessions, listeners,
                   handlers, interrupted, summaries, signals>>

\* 300 ms without a change event: the debounced callback runs with the last
\* arguments.  watcher.close() does not cancel it.
debounced(s) ==
    /\ timers[s] # Idle
    /\ monitoredChanges' = processFileChange(monitoredChanges, "change", timers[s])
    /\ timers' = [timers EXCEPT ![s] = Idle]
    /\ UNCHANGED <<commands, svcignore, watching, sessions, listeners, handlers, observed>>

\* watcher.on('error'): watcher.close(), reject(error); the arrays are kept
onError ==
    /\ watching # 0
    /\ watching' = 0
    /\ UNCHANGED <<commands, svcignore, monitoredChanges, sessions, listeners, timers,
                   handlers, observed>>

\* the first prompt of handleInteractivePrompts from kind number type on:
\* <<type, 1>> of the first array that is not empty, <<0, 0>> if none is
firstPrompt(changes, type) ==
    LET rest == {k \in type..Len(Kinds) : changes[Kinds[k]] # <<>>}
    IN  IF rest = {} THEN <<0, 0>>
        ELSE <<CHOOSE k \in rest : \A other \in rest : k <= other, 1>>

\* message: `Detected "${type}" for ${file}. What would you like to do?`
promptOf(changes, at) == [type |-> Kinds[at[1]], file |-> changes[Kinds[at[1]]][at[2]]]

\* the sessions whose SIGINT listener is registered
monitorListeners == {listeners[i] : i \in 1..Len(listeners)} \ {ExitListener}

\* the process receives SIGINT: the listeners run in the order they were
\* registered.  handleExit calls process.exit(0): what the process held in
\* memory is gone and the CLI starts again.  A listener of monitorFiles
\* prints the summary (categorizeChanges) and runs handleInteractivePrompts
\* up to its first prompt; with nothing to prompt for it clears the arrays,
\* closes its watcher and resolves.
SIGINT ==
    /\ signals < MaxSignals
    /\ listeners # <<>>
    /\ handlers = {}
    /\ signals' = signals + 1
    /\ interrupted' = interrupted \cup (IF watching # 0 THEN {watching} ELSE {})
    /\ IF Head(listeners) = ExitListener
       THEN /\ monitoredChanges' = EmptyChanges
            /\ firstEvents' = EmptyChanges
            /\ watching' = 0
            /\ listeners' = <<ExitListener>>
            /\ timers' = [s \in 1..MaxSessions |-> Idle]
            /\ handlers' = {}
            /\ UNCHANGED summaries
       ELSE /\ summaries' = summaries \cup monitorListeners
            /\ IF firstPrompt(monitoredChanges, 1) = <<0, 0>>
               THEN /\ monitoredChanges' = EmptyChanges
                    /\ firstEvents' = EmptyChanges
                    /\ watching' = 0
                    /\ handlers' = {}
               ELSE /\ handlers' =
                          {[session |-> n,
                            type |-> firstPrompt(monitoredChanges, 1)[1],
                            idx |-> 1,
                            detached |-> FALSE,
                            array |-> <<>>,
                            asked |-> <<promptOf(monitoredChanges,
                                          firstPrompt(monitoredChanges, 1))>>]
                              : n \in monitorListeners}
                    /\ UNCHANGED <<monitoredChanges, firstEvents, watching>>
            /\ UNCHANGED <<listeners, timers>>
    /\ UNCHANGED <<commands, svcignore, sessions>>

\* the choices of a prompt
Actions == {"track", "ignore", "skip"}

\* the array a handler iterates: monitoredChanges[type] as long as it is the
\* array the handler started on, the array it started on once the arrays
\* were replaced by empty ones
iterated(h) == IF h.detached THEN h.array ELSE monitoredChanges[Kinds[h.type]]

\* case 'ignore': fs.appendFileSync(ignoreFilePath, `${file}\n`)
appendFileSync(text, file) == (IF text = Missing THEN "" ELSE text) \o file \o "\n"

\* one prompt of handleInteractivePrompts is answered: the action runs and
\* the loops go on to the next prompt.  After the last one the arrays are
\* replaced by empty ones, and the handler closes its watcher and resolves.
handleInteractivePrompts(h, action) ==
    /\ h \in handlers
    /\ action = "ignore" => Len(split(svcignore)) < Len(split(InitialIgnoreFile)) + MaxIgnored
    /\ svcignore' = IF action = "ignore"
                    THEN appendFileSync(svcignore, iterated(h)[h.idx])
                    ELSE svcignore
    /\ IF h.idx < Len(iterated(h))
       THEN /\ handlers' = (handlers \ {h}) \cup
                    {[h EXCEPT !.idx = h.idx + 1,
                               !.asked = Append(@, [type |-> Kinds[h.type],
                                                    file |-> iterated(h)[h.idx + 1]])]}
            /\ UNCHANGED <<monitoredChanges, firstEvents, watching>>
       ELSE IF firstPrompt(monitoredChanges, h.type + 1) # <<0, 0>>
       THEN /\ handlers' = (handlers \ {h}) \cup
                    {[h EXCEPT !.type = firstPrompt(monitoredChanges, h.type + 1)[1],
                               !.idx = 1,
                               !.detached = FALSE,
                               !.array = <<>>,
                               !.asked = Append(@, promptOf(monitoredChanges,
                                            firstPrompt(monitoredChanges, h.type + 1)))]}
            /\ UNCHANGED <<monitoredChanges, firstEvents, watching>>
       ELSE /\ monitoredChanges' = EmptyChanges
            /\ firstEvents' = EmptyChanges
            /\ handlers' = {IF g.detached THEN g
                            ELSE [g EXCEPT !.detached = TRUE, !.array = iterated(g)]
                                : g \in handlers \ {h}}
            /\ watching' = IF watching = h.session THEN 0 ELSE watching
    /\ UNCHANGED <<commands, sessions, listeners, timers, interrupted, summaries, signals>>

\* a monitoring session of the CLI: SIGINT ends the process
NextMonitorCli ==
    \/ monitorFiles
    \/ \E p \in MonitorPaths : onAdd(p)
    \/ \E p \in MonitorPaths : onChange(p)
    \/ \E p \in MonitorPaths : onUnlink(p)
    \/ \E s \in 1..MaxSessions : debounced(s)
    \/ onError
    \/ SIGINT

SpecMonitorCli == Init /\ [][NextMonitorCli]_vars

\* monitorFiles called from a program that registers no SIGINT listener of
\* its own; files are created and modified while it runs
InitMonitor == InitWith("ready", <<>>)

NextMonitor ==
    \/ monitorFiles
    \/ \E p \in MonitorPaths : onAdd(p)
    \/ \E p \in MonitorPaths : onChange(p)
    \/ \E s \in 1..MaxSessions : debounced(s)
    \/ onError
    \/ SIGINT
    \/ \E h \in handlers, action \in Actions : handleInteractivePrompts(h, action)

SpecMonitor == InitMonitor /\ [][NextMonitor]_vars

\* the Snapshot rows of id s
SnapshotRows(rows, s) == {row \in rows : row.id = s}

(***************************************************************************)
(* C21. A snapshot id goes from nonexistent to created to deleted and no   *)
(* further: an id that was issued and has no row never has one again, a    *)
(* new row gets an id never issued before, and no step changes the row of  *)
(* an existing snapshot.                                                   *)
(***************************************************************************)
C21_SnapshotLifecycle ==
    [][/\ \A s \in IssuedIds :
            /\ SnapshotRows(snapshots, s) = {} => SnapshotRows(snapshots', s) = {}
            /\ SnapshotRows(snapshots', s) # {} =>
                    SnapshotRows(snapshots', s) = SnapshotRows(snapshots, s)
       /\ \A row \in snapshots' \ snapshots : row.id \notin IssuedIds
       /\ \A row \in snapshots' : Cardinality(SnapshotRows(snapshots', row.id)) = 1]_vars

\* a snapshot was created after an earlier one was deleted
C21_Witness ==
    \E s \in deleted :
        /\ SnapshotRows(snapshots, s) = {}
        /\ \E t \in listSnapshots : t > s

(***************************************************************************)
(* C22. There is at most one File row per path, whatever track passes ran  *)
(* and however they interleaved.                                           *)
(***************************************************************************)
C22_OneFileRowPerPath ==
    \A p \in Paths : Cardinality(FileRows(files, p)) <= 1

\* the row of a.txt was inserted by one pass and updated by a later one: a
\* snapshot recorded the content of the first hash
C22_Witness ==
    /\ track = {}
    /\ \E f \in FileRows(files, "a.txt") :
          /\ f.hash = calculateFileHash("2")
          /\ \E s \in finished : \E r \in captured[s] :
                r.file_id = f.id /\ r.content = "1"

C24_UnreadableFileDoesNotStopTrack ==
    [][\A t \in track : \A p \in Paths :
          trackWalkThrows(t, p) =>
              \A q \in traverseDirectory(disk, t.patterns, "") \ {p} :
                  \E n \in track' : \E w \in n.work : w.path = q]_vars

(***************************************************************************)
(* C25. In a directory with no database file, or whose project lookup      *)
(* returns no project, no command inserts, updates or deletes a row of     *)
(* files, snapshots or snapshot_files, none writes a file of the working   *)
(* tree (the tree changes by the user's edits only) and none touches       *)
(* .svcignore.                                                             *)
(***************************************************************************)
C25_NoProjectNoEffect ==
    [][~(database = "ready") =>
          /\ store' = store
          /\ svcignore' = svcignore
          /\ disk' # disk => edits' = edits + 1
          /\ chains' = chains
          /\ readers' = readers]_vars

\* createSnapshot was refused for want of a project after the tree changed
C25_Witness ==
    /\ database = "noproject"
    /\ edits = MaxEdits
    /\ <<"Failed", "createSnapshot">> \in console
    /\ files = {}
    /\ snapshots = {}

(***************************************************************************)
(* C26. Claim: a SIGINT during a monitoring session of the CLI ends the    *)
(* session with the summary and the triage, and the process does not exit  *)
(* before.                                                                 *)
(* index.js registers its own SIGINT listener before the menu starts; it   *)
(* runs first and calls process.exit(0): the listener of monitorFiles      *)
(* prints no summary and asks nothing.                                     *)
(***************************************************************************)
C26_SigintEndsWithSummaryAndTriage ==
    \A s \in interrupted : s \in summaries

(***************************************************************************)
(* C27. Claim: from the first prompt of the triage until the arrays are    *)
(* cleared, no event is recorded in added, modified or deleted.            *)
(* The handler closes the watcher after handleInteractivePrompts returns:  *)
(* during the prompts the watcher is open and its callbacks push.          *)
(***************************************************************************)
C27_NoEventRecordedDuringTriage ==
    [][handlers # {} =>
          \/ monitoredChanges' = monitoredChanges
          \/ monitoredChanges' = EmptyChanges]_vars

(***************************************************************************)
(* C28. Claim: at the start of every monitoring session added, modified    *)
(* and deleted are empty.                                                  *)
(* The arrays belong to the module and only the end of the triage clears   *)
(* them: a session ended by a watcher error leaves its paths to the next.  *)
(***************************************************************************)
C28_SessionStartsWithEmptySets ==
    [][sessions' # sessions => monitoredChanges' = EmptyChanges]_vars

\* the number of times path is in array
occurrences(array, path) == Cardinality({i \in 1..Len(array) : array[i] = path})

\* no call of a debounced callback is pending
Settled == \A s \in 1..MaxSessions : timers[s] = Idle

(***************************************************************************)
(* C29. Claim: once the change events have settled, every path that had    *)
(* one is in modified exactly once, also when other paths changed in the   *)
(* same quiet window.                                                      *)
(* One debounced function serves every path of the session: of the paths   *)
(* that change within one window only the last is recorded.                *)
(***************************************************************************)
C29_EveryChangedPathIsRecorded ==
    (watching # 0 /\ Settled) =>
        \A p \in MonitorPaths :
            includes(firstEvents.modified, p) =>
                occurrences(monitoredChanges.modified, p) = 1

\* the place of path in array
indexOf(array, path) == CHOOSE i \in 1..Len(array) : array[i] = path

(***************************************************************************)
(* C30. Claim: each of added, modified and deleted holds no path twice     *)
(* and holds its paths in the order of their first detection.              *)
(* processFileChange appends a path that is not yet there, but the change  *)
(* event of a path is dropped when another path changes within the quiet   *)
(* window (C29): the path enters modified at a later event, behind paths   *)
(* that changed after it.                                                  *)
(***************************************************************************)
C30_SetsAreDeduplicatedInDetectionOrder ==
    \A kind \in {"added", "modified", "deleted"} :
        LET array == monitoredChanges[kind]
            first == firstEvents[kind]
        IN  /\ \A p \in MonitorPaths : occurrences(array, p) <= 1
            /\ \A i, j \in 1..Len(array) :
                  (i < j /\ includes(first, array[i]) /\ includes(first, array[j])) =>
                      indexOf(first, array[i]) < indexOf(first, array[j])

(***************************************************************************)
(* C39. Claim: every SnapshotFile row references an existing Snapshot row  *)
(* and an existing File row of the project.                                *)
(* The tables declare the foreign keys but the connection never enables    *)
(* them, and createSnapshot inserts its SnapshotFile rows one statement at *)
(* a time: a delete of the snapshot that runs between them removes the     *)
(* Snapshot row, and the rows inserted afterwards reference no snapshot.   *)
(***************************************************************************)
C39_ReferentialIntegrity ==
    \A r \in DOMAIN snapshot_files :
        /\ \E row \in snapshots : row.id = r.snapshot_id
        /\ \E f \in files : f.id = r.file_id /\ f.project_id = ProjectId

\* one prompt for every path of the arrays: added, then modified, then
\* deleted, each in the order of the array
promptsFor(changes) ==
    [i \in 1..Len(changes.added) |-> [type |-> "added", file |-> changes.added[i]]]
    \o [i \in 1..Len(changes.modified) |-> [type |-> "modified", file |-> changes.modified[i]]]
    \o [i \in 1..Len(changes.deleted) |-> [type |-> "deleted", file |-> changes.deleted[i]]]

(***************************************************************************)
(* C31. Claim: the triage prompts exactly once for every recorded path,    *)
(* added first, then modified, then deleted, each in detection order.      *)
(* The watcher is open during the triage (C27): a path recorded in an      *)
(* array the loops have left is never prompted for, and is dropped when    *)
(* the arrays are cleared.                                                 *)
(***************************************************************************)
C31_TriagePromptsOncePerPathInOrder ==
    [][\A h \in handlers :
          (\E action \in Actions : handleInteractivePrompts(h, action))
            /\ Cardinality(handlers') < Cardinality(handlers)
          => h.asked = promptsFor(monitoredChanges)]_vars

(***************************************************************************)
(* C36. Claim: the answer 'track' gives the path a File row with the hash  *)
(* of its current content.                                                 *)
(* case 'track' prints a line and does nothing else: no row is inserted    *)
(* or updated.                                                             *)
(***************************************************************************)
C36_TrackAnswerTracksTheFile ==
    [][\A h \in handlers :
          handleInteractivePrompts(h, "track") =>
              \E f \in files' : f.path = iterated(h)[h.idx]]_vars

(***************************************************************************)
(* C38. Claim: one SIGINT starts one summary and one triage, whatever      *)
(* sessions ran before, and no two triages run at once.                    *)
(* Every call of monitorFiles adds a SIGINT listener and none is removed:  *)
(* after a session that ended, the next SIGINT runs the listener of every  *)
(* session, each with its own summary and its own prompts over the same    *)
(* arrays.                                                                 *)
(***************************************************************************)
C38_OneTriagePerSignal ==
    Cardinality(handlers) <= 1

(***************************************************************************)
(* editIgnoreRules: the interactive editor of .svcignore.                  *)
(***************************************************************************)
\* rules the editor's list may hold before 'add' is refused by the model
MaxRules == 2

\* what the user types at 'Enter a new ignore pattern'
RuleInputs == {"*.log", " tmp", "#x", "("}

\* a .svcignore written by hand: a blank line, comments, an indented
\* comment, white space around a rule
HandWritten == "*.log\n\n# c\n tmp \t\n//d\n  #e\n"

\* the .svcignore files the editor may find
RuleFiles == {Missing, InitialIgnoreFile, HandWritten}

\* the number of times the one-character string char is in str
count(str, char) == Cardinality({i \in 1..Len(str) : SubSeq(str, i, i) = char})

\* glob.hasMagic(pattern), for the patterns of the model
hasMagic(pattern) == \E char \in {"*", "?", "[", "{"} : count(pattern, char) > 0

\* new RegExp(pattern) does not throw, for the patterns of the model: its
\* parentheses are balanced
validRegExp(pattern) == count(pattern, "(") = count(pattern, ")")

\* validatePattern
validatePattern(pattern) == hasMagic(pattern) \/ validRegExp(pattern)

\* a save that writes the list back to front
RECURSIVE joinReversed(_)
joinReversed(rules) ==
    IF rules = <<>> THEN "\n"
    ELSE rules[Len(rules)] \o "\n" \o joinReversed(SubSeq(rules, 1, Len(rules) - 1))

\* saveIgnoreRules: fs.writeFileSync(ignoreFilePath, rules.join('\n') + '\n')
saveIgnoreRules(rules) == join(rules) \o "\n"

\* previewIgnoredFiles: one heading for every rule loadIgnoreRules returns
\* (the matches of glob.sync are printed below each)
previewIgnoredFiles(file) ==
    IF loadIgnoreRules(file) = <<>> THEN {<<"No ignore rules found", "">>}
    ELSE {<<"Rule", loadIgnoreRules(file)[i]>> : i \in 1..Len(loadIgnoreRules(file))}

\* what the editor leaves alone
outsideEditor ==
    <<disk, edits, store, chains, history, readers, restores, diffs, database, monitor,
      observed, secret_key, collab, shown, clock>>

\* let rules = loadIgnoreRules()
editIgnoreRules ==
    /\ ~editor.open
    /\ editor' = [open |-> TRUE, rules |-> loadIgnoreRules(svcignore)]
    /\ console' = {}
    /\ UNCHANGED <<svcignore, outsideEditor>>

\* case 'add': the prompt accepts an input that is not blank; a valid
\* pattern is pushed, trimmed
editAdd(newRule) ==
    /\ editor.open
    /\ Len(editor.rules) < MaxRules
    /\ trim(newRule) # ""
    /\ editor' = IF validatePattern(newRule)
                 THEN [editor EXCEPT !.rules = Append(@, trim(newRule))]
                 ELSE editor
    /\ console' = {<<IF validatePattern(newRule) THEN "added" ELSE "Invalid pattern",
                     newRule>>}
    /\ UNCHANGED <<svcignore, outsideEditor>>

\* case 'remove': rules.splice(ruleIndex, 1)
editRemove(ruleIndex) ==
    /\ editor.open
    /\ ruleIndex \in 1..Len(editor.rules)
    /\ editor' = [editor EXCEPT !.rules = SubSeq(@, 1, ruleIndex - 1)
                                           \o SubSeq(@, ruleIndex + 1, Len(@))]
    /\ console' = {<<"removed", editor.rules[ruleIndex]>>}
    /\ UNCHANGED <<svcignore, outsideEditor>>

\* case 'preview'
editPreview ==
    /\ editor.open
    /\ console' = previewIgnoredFiles(svcignore)
    /\ UNCHANGED <<svcignore, editor, outsideEditor>>

\* case 'back'
editBack ==
    /\ editor.open
    /\ editor' = [open |-> FALSE, rules |-> <<>>]
    /\ console' = {}
    /\ UNCHANGED <<svcignore, outsideEditor>>

\* case 'save': the write succeeds, or throws and the error is printed
editSave(ok) ==
    /\ editor.open
    /\ svcignore' = IF ok THEN saveIgnoreRules(editor.rules) ELSE svcignore
    /\ editor' = [open |-> FALSE, rules |-> <<>>]
    /\ console' = {<<IF ok THEN "Changes saved" ELSE "Error saving ignore rules", "">>}
    /\ UNCHANGED outsideEditor

InitIgnore == \E file \in RuleFiles : InitFiles("ready", <<ExitListener>>, file)

NextIgnore ==
    \/ editIgnoreRules
    \/ \E newRule \in RuleInputs : editAdd(newRule)
    \/ \E ruleIndex \in 1..(MaxRules + Len(DefaultIgnoreRules)) : editRemove(ruleIndex)
    \/ editPreview
    \/ editBack
    \/ \E ok \in BOOLEAN : editSave(ok)

\* the ignore menu of the CLI, in a project with any .svcignore
SpecIgnore == InitIgnore /\ [][NextIgnore]_vars

\* the lines of a file that are rules once trimmed, as positions
rulePositions(file) == {i \in 1..Len(split(file)) : isRule(trim(split(file)[i]))}

\* the n-th smallest element of a set of numbers
nth(positions, n) ==
    CHOOSE i \in positions : Cardinality({j \in positions : j <= i}) = n

(***************************************************************************)
(* C32 as stated: loadRules returns the lines of the file, in order, less  *)
(* the blank lines and the lines that begin with `#` or `//`, and changes  *)
(* nothing else.                                                           *)
(* It does not hold as stated: every line is trimmed before it is          *)
(* examined and returned.                                                  *)
(***************************************************************************)
C32_LoadReturnsTheLinesUnchanged ==
    svcignore # Missing =>
        loadIgnoreRules(svcignore)
            = SelectSeq(split(svcignore),
                        LAMBDA line : trim(line) # "" /\ ~startsWith(line, "#")
                                        /\ ~startsWith(line, "//"))

(***************************************************************************)
(* C32, amended: loadRules returns, in file order, the trimmed lines of    *)
(* the file, less those that are empty or begin with `#` or `//` once      *)
(* trimmed; nothing else is removed or reordered, and a missing file       *)
(* gives the empty list.                                                   *)
(***************************************************************************)
C32_LoadReturnsTheTrimmedRuleLines ==
    IF svcignore = Missing THEN loadIgnoreRules(svcignore) = <<>>
    ELSE /\ Len(loadIgnoreRules(svcignore)) = Cardinality(rulePositions(svcignore))
         /\ \A n \in 1..Len(loadIgnoreRules(svcignore)) :
               loadIgnoreRules(svcignore)[n]
                   = trim(split(svcignore)[nth(rulePositions(svcignore), n)])

\* the editor has loaded the hand-written file: two rules, the second one
\* trimmed, and no comment
C32_Witness ==
    /\ svcignore = HandWritten
    /\ editor.open
    /\ editor.rules = <<"*.log", "tmp">>

(***************************************************************************)
(* C33. The editor writes .svcignore at 'save' only: every other step      *)
(* leaves the file as it is, and a save that succeeds leaves a file whose  *)
(* lines that are not empty are the rules of the list, in the order of the *)
(* list.                                                                   *)
(***************************************************************************)
C33_OnlySaveWritesTheRuleFile ==
    [][/\ (\E ok \in BOOLEAN : editSave(ok)) \/ svcignore' = svcignore
       /\ editSave(TRUE) =>
              SelectSeq(split(svcignore'), LAMBDA line : line # "") = editor.rules]_vars

\* a list changed by add and remove was given up with 'back', and a later
\* list of two rules was saved
C33_Witness ==
    /\ ~editor.open
    /\ split(svcignore) = <<"tmp", "*.log", "">>

(***************************************************************************)
(* C40. Claim: the list the editor saves is the list loadRules returns     *)
(* afterwards.                                                             *)
(* validatePattern accepts a pattern that begins with `#` or `//` (it is   *)
(* a valid regular expression), save writes it as a line of its own, and   *)
(* loadIgnoreRules drops that line as a comment.                           *)
(***************************************************************************)
C40_SaveThenLoadRoundTrips ==
    [][editSave(TRUE) => loadIgnoreRules(svcignore') = editor.rules]_vars

(***************************************************************************)
(* C37. Claim: the answer 'ignore' for path p leaves the rules as they     *)
(* were, followed by p.                                                    *)
(* initProject writes .svcignore with no newline at the end, and the       *)
(* triage appends `${file}\n` to it: the path is glued to the last rule.   *)
(***************************************************************************)
C37_IgnoreAnswerAppendsARule ==
    [][\A h \in handlers :
          handleInteractivePrompts(h, "ignore") =>
              loadIgnoreRules(svcignore')
                  = Append(loadIgnoreRules(svcignore), iterated(h)[h.idx])]_vars

(***************************************************************************)
(* The collaboration menu: getSecretKey and regenerateSecretKey.  The menu *)
(* awaits each call: one is in flight at a time.  ensureSecretKeyColumn    *)
(* changes no row.                                                         *)
(***************************************************************************)
\* crypto.randomBytes(16).toString('hex'): the keys of the model
Keys == {"k1", "k2", "k3"}

\* what the collaboration commands leave alone
outsideCollaboration ==
    <<disk, edits, svcignore, store, chains, history, readers, ui, database, monitor,
      observed, editor, clock>>

\* an UPDATE that changes no row
updateNothing(current, newKey) == current

\* UPDATE projects SET secret_key = ? WHERE id = ?
updateProjects(current, newKey) == newKey

\* case 'show': getSecretKey(projectId) is called, the SELECT is queued
getSecretKey ==
    /\ projectFound(database)
    /\ collab = {}
    /\ collab' = {[op |-> "get", pc |-> "select", newKey |-> ""]}
    /\ UNCHANGED <<secret_key, shown, outsideCollaboration>>

\* SELECT secret_key FROM projects WHERE id = ? returns: an error rejects,
\* a stored key is resolved, no key makes generateSecretKey choose one and
\* queues the UPDATE
getSecretKeySelect(c, ok, newKey) ==
    /\ c \in collab
    /\ c.pc = "select"
    /\ IF ~ok
       THEN collab' = {} /\ UNCHANGED shown
       ELSE IF secret_key # ""
       THEN collab' = {} /\ shown' = secret_key
       ELSE /\ collab' = {[c EXCEPT !.pc = "update", !.newKey = newKey]}
            /\ UNCHANGED shown
    /\ UNCHANGED <<secret_key, outsideCollaboration>>

\* case 'regenerate': regenerateSecretKey(projectId) chooses a key and
\* queues the UPDATE
regenerateSecretKey(newKey) ==
    /\ projectFound(database)
    /\ collab = {}
    /\ collab' = {[op |-> "regenerate", pc |-> "update", newKey |-> newKey]}
    /\ UNCHANGED <<secret_key, shown, outsideCollaboration>>

\* the UPDATE of either command returns: resolve(newKey), or reject
updateSecretKey(c, ok) ==
    /\ c \in collab
    /\ c.pc = "update"
    /\ collab' = {}
    /\ IF ok
       THEN /\ secret_key' = updateProjects(secret_key, c.newKey)
            /\ shown' = c.newKey
       ELSE UNCHANGED <<secret_key, shown>>
    /\ UNCHANGED outsideCollaboration

\* the collaboration menu, with track passes before and during its calls
NextCollaboration ==
    \/ \E p \in Paths, content \in Contents : writeFile(p, content)
    \/ \E p \in Paths : unlink(p)
    \/ trackFiles
    \/ \E t \in track : trackWalk(t)
    \/ \E t \in track : \E w \in t.work : trackSelect(t, w)
    \/ \E t \in track : \E w \in t.work : trackWrite(t, w)
    \/ getSecretKey
    \/ \E c \in collab, ok \in BOOLEAN, newKey \in Keys : getSecretKeySelect(c, ok, newKey)
    \/ \E newKey \in Keys : regenerateSecretKey(newKey)
    \/ \E c \in collab, ok \in BOOLEAN : updateSecretKey(c, ok)

SpecCollaboration == Init /\ [][NextCollaboration]_vars

(***************************************************************************)
(* C34. The secret is issued lazily and is stable: getSecretKey stores a   *)
(* new key only when the project has none and otherwise returns the stored *)
(* one and changes nothing; the key a call returns is the key that is      *)
(* stored when it returns; the stored key changes only when an UPDATE of   *)
(* one of the two commands succeeds; and no step of either command changes *)
(* a row of files, snapshots or snapshot_files.                            *)
(***************************************************************************)
C34_SecretIsLazyAndStable ==
    /\ []((collab = {} /\ shown # "") => shown = secret_key)
    /\ [][/\ \A c \in collab :
               /\ (\E newKey \in Keys : getSecretKeySelect(c, TRUE, newKey)) =>
                     /\ secret_key' = secret_key
                     /\ store' = store
                     /\ secret_key # "" => (shown' = secret_key /\ collab' = {})
               /\ updateSecretKey(c, TRUE) =>
                     /\ shown' = secret_key'
                     /\ secret_key' = c.newKey
                     /\ store' = store
                     /\ c.op = "get" => secret_key = ""
          /\ secret_key' # secret_key => \E c \in collab : updateSecretKey(c, TRUE)]_vars

\* a.txt has a File row, a key is stored and was returned by the last call,
\* and a later getSecretKey is about to read it
C34_Witness ==
    /\ FileRows(files, "a.txt") # {}
    /\ secret_key # ""
    /\ shown = secret_key
    /\ \E c \in collab : c.op = "get" /\ c.pc = "select"

(***************************************************************************)
(* The history listing.  created_at is CURRENT_TIMESTAMP, which counts     *)
(* whole seconds; the listings are ordered by created_at alone, and SQL    *)
(* leaves the order of rows with equal keys to the engine.                 *)
(***************************************************************************)
\* seconds that pass in one behaviour
MaxClock == 1

\* a second passes
tick ==
    /\ clock < MaxClock
    /\ clock' = clock + 1
    /\ UNCHANGED <<disk, edits, svcignore, store, chains, history, readers, ui, database,
                   monitor, observed, editor, secret_key, collab, shown>>

\* the sequences that hold every row of a set once
orderings(rows) ==
    {listing \in [1..Cardinality(rows) -> rows] :
        \A i, j \in 1..Cardinality(rows) : i # j => listing[i] # listing[j]}

\* SELECT id, description, created_at FROM snapshots WHERE project_id = ?
\* ORDER BY created_at ASC: the results the statement allows
orderByCreatedAt(rows) ==
    {listing \in orderings({row \in rows : row.project_id = ProjectId}) :
        \A i, j \in 1..Len(listing) :
            i < j => listing[i].created_at <= listing[j].created_at}

\* showHistory: the project is looked up, the snapshots are selected and
\* printed one after the other
showHistory ==
    /\ projectFound(database)
    /\ \E listing \in orderByCreatedAt(snapshots) :
          console' = IF Len(listing) = 0
                     THEN {<<"warn", "No snapshots found.">>}
                     ELSE {<<"history", [i \in 1..Len(listing) |-> listing[i].id]>>}
    /\ UNCHANGED <<disk, edits, svcignore, store, chains, history, readers, restores,
                   diffs, session>>

\* snapshots are created while the clock runs, and the history is shown
NextHistory ==
    \/ tick
    \/ createSnapshot
    \/ \E t \in track : trackWalk(t)
    \/ \E t \in track : \E w \in t.work : trackSelect(t, w)
    \/ \E t \in track : \E w \in t.work : trackWrite(t, w)
    \/ \E c \in create, ok \in BOOLEAN, description \in Descriptions :
          createInsert(c, ok, description)
    \/ \E c \in create, ok \in BOOLEAN : createSelect(c, ok)
    \/ \E c \in create : \E r \in c.todo : createInsertFile(c, r)
    \/ showHistory

SpecHistory == Init /\ [][NextHistory]_vars

(***************************************************************************)
(* C35. Every history listing shows the snapshots in creation order: a     *)
(* snapshot created earlier (AUTOINCREMENT gives it the smaller id) is     *)
(* listed before one created later, also when both were created within the *)
(* same second.                                                            *)
(***************************************************************************)
C35_ListingsFollowCreationOrder ==
    \A entry \in console :
        entry[1] = "history" =>
            \A i, j \in 1..Len(entry[2]) : i < j => entry[2][i] < entry[2][j]

====
